---- MODULE Spec2Model ----
(***************************************************************************)
(* Model of the keploy RAG indexer: pkg/rag/indexer.go (CodeIndexer,       *)
(* splitIntoChunks, generateID, Search), the embeddings client             *)
(* (EmbeddingGenerator.GenerateEmbeddings) and the ChromaStore wrapper     *)
(* (AddDocuments / QuerySimilar / DeleteDocuments under sync.RWMutex).     *)
(*                                                                         *)
(* Strings are sequences of one-character strings, so that splitting on    *)
(* the newline, re-joining with newlines and concatenating path and chunk  *)
(* are computed, not assumed.                                              *)
(***************************************************************************)
EXTENDS Integers, Sequences, FiniteSets, TLC

VARIABLES
    \* ---- splitIntoChunks called as a function
    text, chunkSize, chunks, cpc,
    \* ---- GenerateEmbeddings called as a function
    texts, reply, eres, epc,
    \* ---- one ChromaStore shared by concurrent callers
    lpc, lop, wHolder, readers,
    \* ---- one call of IndexDirectory, ProcessFile or Search
    pc, mode, wi, path, fchunks, idx, result, cancelled,
    added, addCalls, reads,
    errAt, failedAt, readsAfterCancel, embedAfterCancel, embedOKAfterCancel,
    writesAfterCancel,
    limit, qdocs, qmetas, qfail, results

chunkVars == <<text, chunkSize, chunks, cpc>>
embVars == <<texts, reply, eres, epc>>
lockVars == <<lpc, lop, wHolder, readers>>
ctlVars == <<pc, mode, wi, path, fchunks, idx, result>>
storeVars == <<added, addCalls, reads>>
histVars == <<errAt, failedAt, readsAfterCancel, embedAfterCancel,
              embedOKAfterCancel, writesAfterCancel>>
searchVars == <<limit, qdocs, qmetas, qfail, results>>
idxVars == <<ctlVars, cancelled, storeVars, histVars, searchVars>>
vars == <<chunkVars, embVars, lockVars, idxVars>>

\* the parts of the state that an operation of another part leaves alone
notChunk == <<embVars, lockVars, idxVars>>
notEmbed == <<chunkVars, lockVars, idxVars>>
notLock == <<chunkVars, embVars, idxVars>>
notIndex == <<chunkVars, embVars, lockVars>>

----------------------------------------------------------------------------
\* Bounds of the model
MaxLen == 5          \* longest input text given to splitIntoChunks
MaxChunkSize == 4    \* largest chunk size given to splitIntoChunks
MaxTexts == 3        \* longest batch given to GenerateEmbeddings
NumProcs == 3        \* goroutines calling one ChromaStore
MaxFileLen == 5      \* longest file content read by ProcessFile
FileChunkSize == 3   \* the chunk size ProcessFile passes (1000, scaled down)
MaxRes == 2          \* largest limit given to Search

NL == "\n"
Chars == {"p", NL}

RECURSIVE StringsUpTo(_)
StringsUpTo(n) ==
    IF n = 0 THEN {<<>>}
    ELSE LET S == StringsUpTo(n - 1)
         IN  S \cup {Append(s, c) : s \in {t \in S : Len(t) = n - 1}, c \in Chars}

----------------------------------------------------------------------------
\* strings.Split(text, "\n"): the pieces between newlines; "" gives <<"">>.
RECURSIVE SplitAcc(_, _, _)
SplitAcc(s, cur, acc) ==
    IF s = <<>> THEN Append(acc, cur)
    ELSE IF Head(s) = NL
         THEN SplitAcc(Tail(s), <<>>, Append(acc, cur))
         ELSE SplitAcc(Tail(s), Append(cur, Head(s)), acc)

Split(s) == SplitAcc(s, <<>>, <<>>)

\* lineSize := len(line) + 1
LineSize(line) == Len(line) + 1

\* the flush test done before a line is appended
NeedFlushLate(currentSize, lineSize, size) ==
    currentSize > size /\ currentSize > 0

NeedFlush(currentSize, lineSize, size) ==
    currentSize + lineSize > size /\ currentSize > 0

\* currentChunk.WriteString(line + "\n")
WriteLineNoNewline(cur, line) == cur \o line

WriteLine(cur, line) == cur \o line \o <<NL>>

\* the for loop over lines, then the final flush
RECURSIVE ChunkLoop(_, _, _, _, _, _)
ChunkLoop(lines, k, size, acc, cur, currentSize) ==
    IF k > Len(lines)
    THEN IF Len(cur) > 0 THEN Append(acc, cur) ELSE acc
    ELSE LET line == lines[k]
             lineSize == LineSize(line)
             flush == NeedFlush(currentSize, lineSize, size)
             acc1 == IF flush THEN Append(acc, cur) ELSE acc
             cur1 == IF flush THEN <<>> ELSE cur
             size1 == IF flush THEN 0 ELSE currentSize
         IN  ChunkLoop(lines, k + 1, size, acc1,
                       WriteLine(cur1, line), size1 + lineSize)

splitIntoChunks(t, size) == ChunkLoop(Split(t), 1, size, <<>>, <<>>, 0)

----------------------------------------------------------------------------
\* Reading a chunk back: its newline-terminated lines, in order.
RECURSIVE TermLinesAcc(_, _, _)
TermLinesAcc(s, cur, acc) ==
    IF s = <<>> THEN acc
    ELSE IF Head(s) = NL
         THEN TermLinesAcc(Tail(s), <<>>, Append(acc, cur))
         ELSE TermLinesAcc(Tail(s), Append(cur, Head(s)), acc)

TermLines(s) == TermLinesAcc(s, <<>>, <<>>)

RECURSIVE AllLines(_, _)
AllLines(cs, k) ==
    IF k > Len(cs) THEN <<>> ELSE TermLines(cs[k]) \o AllLines(cs, k + 1)

----------------------------------------------------------------------------
\* splitIntoChunks applied to every bounded text and chunk size
ChunkInit ==
    /\ text \in StringsUpTo(MaxLen)
    /\ chunkSize \in 1..MaxChunkSize
    /\ chunks = <<>>
    /\ cpc = "start"

CallSplit ==
    /\ UNCHANGED notChunk
    /\ cpc = "start"
    /\ chunks' = splitIntoChunks(text, chunkSize)
    /\ cpc' = "done"
    /\ UNCHANGED <<text, chunkSize>>

ChunkIdle ==
    /\ text = <<>>
    /\ chunkSize = 1
    /\ chunks = <<>>
    /\ cpc = "off"

----------------------------------------------------------------------------
\* The embedding provider.  Texts are opaque; EmbOf is the vector the
\* provider's model assigns to a text.
Texts == {"t1", "t2"}
EmbOf(t) == IF t = "t1" THEN "v1" ELSE "v2"

RECURSIVE SeqsUpTo(_, _)
SeqsUpTo(S, n) ==
    IF n = 0 THEN {<<>>}
    ELSE LET R == SeqsUpTo(S, n - 1)
         IN  R \cup {Append(s, x) : s \in {t \in R : Len(t) = n - 1}, x \in S}

NoData == <<>>

\* One entry of the response's "data" list: the embedding of the input
\* that its index names.
Datum(ts, j) == [embedding |-> EmbOf(ts[j + 1]), index |-> j]

\* The "data" lists the provider can send for the request ts: entries for
\* distinct inputs, in any order, possibly fewer than the inputs.
DataLists(ts) ==
    {[k \in 1..Len(js) |-> Datum(ts, js[k])] :
        js \in {q \in SeqsUpTo(0..(Len(ts) - 1), Len(ts)) :
                    \A a, b \in 1..Len(q) : a # b => q[a] # q[b]}}

\* What can come back from client.Do and the JSON decoder.
Replies(ts) ==
    {[transport |-> "fail", status |-> 0, body |-> "none", data |-> NoData]}
    \cup {[transport |-> "ok", status |-> 500, body |-> "json", data |-> NoData]}
    \cup {[transport |-> "ok", status |-> 200, body |-> "garbled", data |-> NoData]}
    \cup {[transport |-> "ok", status |-> 200, body |-> "json", data |-> d] :
              d \in DataLists(ts)}

\* A success response carrying one entry per input text.
WellFormed(ts, r) ==
    /\ r.transport = "ok" /\ r.status = 200 /\ r.body = "json"
    /\ Len(r.data) = Len(ts)

StatusOK == 200

\* embeddings[i] = data.Embedding for the i-th entry of the response
Collect(data) == [i \in 1..Len(data) |-> data[i].embedding]

EmbErr(e) == [err |-> e, embeddings |-> <<>>]

\* GenerateEmbeddings(ctx, texts) against the reply r of the provider;
\* ctxDone: the context is already cancelled when the request is made.
GenerateEmbeddingsNoCtx(ctxDone, ts, r) ==
    IF Len(ts) = 0 THEN EmbErr("no texts provided")
    ELSE IF r.transport # "ok" THEN EmbErr("failed to make request")
    ELSE IF r.status # StatusOK THEN EmbErr("status code")
    ELSE IF r.body # "json" THEN EmbErr("failed to decode response")
    ELSE [err |-> "nil", embeddings |-> Collect(r.data)]

GenerateEmbeddings(ctxDone, ts, r) ==
    IF Len(ts) = 0 THEN EmbErr("no texts provided")
    ELSE IF ctxDone \/ r.transport # "ok" THEN EmbErr("failed to make request")
    ELSE IF r.status # StatusOK THEN EmbErr("status code")
    ELSE IF r.body # "json" THEN EmbErr("failed to decode response")
    ELSE [err |-> "nil", embeddings |-> Collect(r.data)]

NoReply == [transport |-> "none", status |-> 0, body |-> "none", data |-> NoData]

EmbedInit ==
    /\ texts \in SeqsUpTo(Texts, MaxTexts)
    /\ reply = NoReply
    /\ eres = EmbErr("none")
    /\ epc = "start"

CallGenerateEmbeddings ==
    /\ UNCHANGED notEmbed
    /\ epc = "start"
    /\ \E r \in Replies(texts) :
          /\ reply' = r
          /\ eres' = GenerateEmbeddings(FALSE, texts, r)
    /\ epc' = "done"
    /\ UNCHANGED texts

EmbedIdle ==
    /\ texts = <<>>
    /\ reply = NoReply
    /\ eres = EmbErr("none")
    /\ epc = "off"

----------------------------------------------------------------------------
\* ChromaStore.mu (sync.RWMutex) and the three methods that take it.
\* wHolder: the goroutine that has called mu.Lock() and excluded other
\* writers and new readers; readers: goroutines holding mu.RLock().
Procs == 1..NumProcs
Ops == {"add", "query", "delete"}
IsWrite(op) == op \in {"add", "delete"}
InCS(p) == lpc[p] \in {"embed", "store", "release"}

LockInit ==
    /\ lpc = [p \in Procs |-> "idle"]
    /\ lop = [p \in Procs |-> "none"]
    /\ wHolder = 0
    /\ readers = 0

LockIdle ==
    /\ lpc = <<>>
    /\ lop = <<>>
    /\ wHolder = 0
    /\ readers = 0

\* a goroutine calls AddDocuments, QuerySimilar or DeleteDocuments
CallStore(p, op) ==
    /\ UNCHANGED notLock
    /\ lpc[p] = "idle"
    /\ lop' = [lop EXCEPT ![p] = op]
    /\ lpc' = [lpc EXCEPT ![p] = "acquire"]
    /\ UNCHANGED <<wHolder, readers>>

\* s.mu.Lock(), first half: exclude other writers and new readers
LockAnnounce(p) ==
    /\ UNCHANGED notLock
    /\ lpc[p] = "acquire" /\ IsWrite(lop[p])
    /\ wHolder = 0
    /\ wHolder' = p
    /\ lpc' = [lpc EXCEPT ![p] = "drain"]
    /\ UNCHANGED <<lop, readers>>

\* s.mu.Lock(), second half: wait until the active readers have left
LockDrained(p) ==
    /\ UNCHANGED notLock
    /\ lpc[p] = "drain"
    /\ readers = 0
    /\ lpc' = [lpc EXCEPT ![p] = IF lop[p] = "add" THEN "embed" ELSE "store"]
    /\ UNCHANGED <<lop, wHolder, readers>>

\* s.mu.RLock()
RLockUnguarded(p) ==
    /\ UNCHANGED notLock
    /\ lpc[p] = "acquire" /\ lop[p] = "query"
    /\ readers' = readers + 1
    /\ lpc' = [lpc EXCEPT ![p] = "embed"]
    /\ UNCHANGED <<lop, wHolder>>

RLock(p) ==
    /\ UNCHANGED notLock
    /\ lpc[p] = "acquire" /\ lop[p] = "query"
    /\ wHolder = 0
    /\ readers' = readers + 1
    /\ lpc' = [lpc EXCEPT ![p] = "embed"]
    /\ UNCHANGED <<lop, wHolder>>

\* s.embedder.GenerateEmbeddings inside AddDocuments / QuerySimilar
LockedEmbed(p, ok) ==
    /\ UNCHANGED notLock
    /\ lpc[p] = "embed"
    /\ lpc' = [lpc EXCEPT ![p] = IF ok THEN "store" ELSE "release"]
    /\ UNCHANGED <<lop, wHolder, readers>>

\* s.collection.Add / Query / Delete
LockedStoreOp(p) ==
    /\ UNCHANGED notLock
    /\ lpc[p] = "store"
    /\ lpc' = [lpc EXCEPT ![p] = "release"]
    /\ UNCHANGED <<lop, wHolder, readers>>

\* the deferred s.mu.Unlock() / s.mu.RUnlock()
Release(p) ==
    /\ UNCHANGED notLock
    /\ lpc[p] = "release"
    /\ IF IsWrite(lop[p])
       THEN wHolder' = 0 /\ UNCHANGED readers
       ELSE readers' = readers - 1 /\ UNCHANGED wHolder
    /\ lpc' = [lpc EXCEPT ![p] = "idle"]
    /\ lop' = [lop EXCEPT ![p] = "none"]

----------------------------------------------------------------------------
\* The indexer.  Paths are strings too, so that filepath.Ext and the
\* concatenation hashed by generateID are computed.
RootDir == <<".">>
FileAC == <<"a", ".", "c">>
FileACpp == <<"a", ".", "c", "p", "p">>
DirD == <<"d">>
FileNMd == <<"N", ".", "M", "D">>

\* What filepath.WalkDir(rootPath) meets, in lexical order.
Walk ==
    << [path |-> RootDir, dir |-> TRUE],
       [path |-> FileNMd, dir |-> FALSE],
       [path |-> FileAC, dir |-> FALSE],
       [path |-> FileACpp, dir |-> FALSE],
       [path |-> DirD, dir |-> TRUE] >>

\* filepath.Ext: the suffix from the last dot of the last path element
RECURSIVE ExtFrom(_, _)
ExtFrom(p, i) ==
    IF i = 0 \/ p[i] = "/" THEN <<>>
    ELSE IF p[i] = "." THEN SubSeq(p, i, Len(p))
    ELSE ExtFrom(p, i - 1)

Ext(p) == ExtFrom(p, Len(p))

\* strings.ToLower on the letters that occur in the modelled paths
LowerChar(c) ==
    CASE c = "C" -> "c" [] c = "P" -> "p" [] c = "H" -> "h"
      [] c = "M" -> "m" [] c = "D" -> "d" [] c = "N" -> "n"
      [] c = "G" -> "g" [] c = "O" -> "o"
      [] OTHER -> c

ToLower(str) == [i \in 1..Len(str) |-> LowerChar(str[i])]

codeExtensions ==
    { <<".", "g", "o">>, <<".", "p", "y">>, <<".", "j", "s">>,
      <<".", "t", "s">>, <<".", "j", "a", "v", "a">>, <<".", "c", "p", "p">>,
      <<".", "c">>, <<".", "h">>, <<".", "h", "p", "p">>, <<".", "r", "s">> }

isCodeFile(p) == ToLower(Ext(p)) \in codeExtensions

\* strings.TrimPrefix(filepath.Ext(filePath), ".")
Language(p) ==
    LET e == Ext(p) IN IF Len(e) > 0 /\ Head(e) = "." THEN Tail(e) ELSE e

\* sha256 + hex, taken as injective on its input bytes
Sha256Hex(bytes) == bytes

generateID(filePath, content) == Sha256Hex(filePath \o content)

Metadata(filePath, i, cs) ==
    [file_path |-> filePath, chunk_index |-> i, total_chunks |-> Len(cs),
     language |-> Language(filePath)]

\* What ProcessFile does when AddDocuments returned an error for chunk i
OnAddErrorContinue(i) == [pc |-> "loop", result |-> "none", idx |-> i + 1]

OnAddError(i) == [pc |-> "done", result |-> "error", idx |-> i]

\* What the WalkDir callback does with a traversal error at entry w
OnWalkErrorSkip(w) == [pc |-> "walk", result |-> "none", wi |-> w + 1]

OnWalkError(w) == [pc |-> "done", result |-> "error", wi |-> w]

\* Search: pair the i-th document with the i-th metadata
SearchResultsFirstMeta(docs, metas) ==
    [i \in 1..Len(docs) |-> [Content |-> docs[i], Metadata |-> metas[1]]]

SearchResults(docs, metas) ==
    [i \in 1..Len(docs) |-> [Content |-> docs[i], Metadata |-> metas[i]]]

StoredDocs == {"d1", "d2"}
StoredMetas == {"m1", "m2"}
Query == "t1"

IndexFields(p) ==
    /\ pc = p /\ mode = "none" /\ wi = 0 /\ path = <<>>
    /\ fchunks = <<>> /\ idx = 0 /\ result = "none"
    /\ cancelled = FALSE
    /\ added = <<>> /\ addCalls = <<>> /\ reads = <<>>
    /\ errAt = 0 /\ failedAt = -1
    /\ readsAfterCancel = 0 /\ embedAfterCancel = FALSE
    /\ embedOKAfterCancel = FALSE /\ writesAfterCancel = 0
    /\ limit = 0 /\ qdocs = <<>> /\ qmetas = <<>> /\ qfail = "none"
    /\ results = <<>>

IndexInit == IndexFields("idle")
IndexIdle == IndexFields("off")

\* the caller's context is cancelled (or its deadline passes)
Cancel ==
    /\ UNCHANGED notIndex
    /\ pc \notin {"idle", "done"} /\ ~cancelled
    /\ cancelled' = TRUE
    /\ UNCHANGED <<ctlVars, storeVars, histVars, searchVars>>

CallIndexDirectory ==
    /\ UNCHANGED notIndex
    /\ pc = "idle"
    /\ mode' = "dir" /\ pc' = "walk" /\ wi' = 1
    /\ UNCHANGED <<path, fchunks, idx, result, cancelled, storeVars,
                   histVars, searchVars>>

CallProcessFile(f) ==
    /\ UNCHANGED notIndex
    /\ pc = "idle"
    /\ mode' = "file" /\ pc' = "read" /\ path' = f
    /\ UNCHANGED <<wi, fchunks, idx, result, cancelled, storeVars,
                   histVars, searchVars>>

CallSearch(lim) ==
    /\ UNCHANGED notIndex
    /\ pc = "idle"
    /\ mode' = "search" /\ pc' = "qembed" /\ limit' = lim
    /\ UNCHANGED <<wi, path, fchunks, idx, result, cancelled, storeVars,
                   histVars, qdocs, qmetas, qfail, results>>

\* WalkDir has no entry left: IndexDirectory returns nil
WalkEnd ==
    /\ UNCHANGED notIndex
    /\ pc = "walk" /\ wi > Len(Walk)
    /\ pc' = "done" /\ result' = "nil"
    /\ UNCHANGED <<mode, wi, path, fchunks, idx, cancelled, storeVars,
                   histVars, searchVars>>

\* a directory: the callback returns nil for it; reading it may fail, and
\* the callback is then called with the error
VisitDir(ok) ==
    /\ UNCHANGED notIndex
    /\ pc = "walk" /\ wi <= Len(Walk) /\ Walk[wi].dir
    /\ LET o == IF ok THEN [pc |-> "walk", result |-> result, wi |-> wi + 1]
                ELSE OnWalkError(wi)
       IN  /\ pc' = o.pc /\ result' = o.result /\ wi' = o.wi
           /\ errAt' = IF ok THEN errAt ELSE wi
    /\ UNCHANGED <<mode, path, fchunks, idx, cancelled, storeVars, failedAt,
                   readsAfterCancel, embedAfterCancel, embedOKAfterCancel,
                   writesAfterCancel, searchVars>>

\* a file that is not a code file: skipped
SkipFile ==
    /\ UNCHANGED notIndex
    /\ pc = "walk" /\ wi <= Len(Walk) /\ ~Walk[wi].dir
    /\ ~isCodeFile(Walk[wi].path)
    /\ wi' = wi + 1
    /\ UNCHANGED <<pc, mode, path, fchunks, idx, result, cancelled,
                   storeVars, histVars, searchVars>>

\* a code file: return i.ProcessFile(ctx, path)
EnterFile ==
    /\ UNCHANGED notIndex
    /\ pc = "walk" /\ wi <= Len(Walk) /\ ~Walk[wi].dir
    /\ isCodeFile(Walk[wi].path)
    /\ path' = Walk[wi].path /\ pc' = "read"
    /\ UNCHANGED <<mode, wi, fchunks, idx, result, cancelled, storeVars,
                   histVars, searchVars>>

\* os.ReadFile(filePath), then splitIntoChunks(string(content), 1000)
ReadFile(ok, content) ==
    /\ UNCHANGED notIndex
    /\ pc = "read"
    /\ reads' = Append(reads, [wi |-> wi, path |-> path, ok |-> ok])
    /\ readsAfterCancel' = readsAfterCancel + (IF cancelled THEN 1 ELSE 0)
    /\ IF ok
       THEN /\ fchunks' = splitIntoChunks(content, FileChunkSize)
            /\ idx' = 0 /\ pc' = "loop"
            /\ UNCHANGED <<result, errAt>>
       ELSE /\ pc' = "done" /\ result' = "error" /\ errAt' = wi
            /\ UNCHANGED <<fchunks, idx>>
    /\ UNCHANGED <<mode, wi, path, cancelled, added, addCalls, failedAt,
                   embedAfterCancel, embedOKAfterCancel, writesAfterCancel,
                   searchVars>>

\* the range over chunks is exhausted: ProcessFile returns nil
ProcessFileReturn ==
    /\ UNCHANGED notIndex
    /\ pc = "loop" /\ idx >= Len(fchunks)
    /\ IF mode = "dir"
       THEN pc' = "walk" /\ wi' = wi + 1 /\ UNCHANGED result
       ELSE pc' = "done" /\ result' = "nil" /\ UNCHANGED wi
    /\ UNCHANGED <<mode, path, fchunks, idx, cancelled, storeVars, histVars,
                   searchVars>>

\* i.store.AddDocuments(ctx, {chunk}, {metadata}, {id}), up to the end of
\* s.embedder.GenerateEmbeddings(ctx, documents)
AddEmbed ==
    /\ UNCHANGED notIndex
    /\ pc = "loop" /\ idx < Len(fchunks)
    /\ \E r \in Replies(<<fchunks[idx + 1]>>) :
       LET chunk == fchunks[idx + 1]
           call == [wi |-> wi, path |-> path, idx |-> idx,
                    documents |-> <<chunk>>,
                    metadata |-> <<Metadata(path, idx, fchunks)>>,
                    ids |-> <<generateID(path, chunk)>>]
           e == GenerateEmbeddings(cancelled, call.documents, r)
           o == IF e.err = "nil"
                THEN [pc |-> "add", result |-> result, idx |-> idx]
                ELSE OnAddError(idx)
       IN  /\ addCalls' = Append(addCalls, call)
           /\ pc' = o.pc /\ result' = o.result /\ idx' = o.idx
           /\ failedAt' = IF e.err = "nil" THEN failedAt ELSE idx
           /\ errAt' = IF e.err = "nil" THEN errAt ELSE wi
           /\ embedAfterCancel' = (embedAfterCancel \/ cancelled)
           /\ embedOKAfterCancel' =
                  (embedOKAfterCancel \/ (cancelled /\ e.err = "nil"))
    /\ UNCHANGED <<mode, wi, path, fchunks, cancelled, added, reads,
                   readsAfterCancel, writesAfterCancel, searchVars>>

\* s.collection.Add(ctx, ...) and the return of AddDocuments
AddStore(ok) ==
    /\ UNCHANGED notIndex
    /\ pc = "add"
    /\ LET call == addCalls[Len(addCalls)]
           o == IF ok THEN [pc |-> "loop", result |-> result, idx |-> idx + 1]
                ELSE OnAddError(idx)
       IN  /\ added' = IF ok
                       THEN Append(added,
                                [id |-> call.ids[1], doc |-> call.documents[1],
                                 meta |-> call.metadata[1]])
                       ELSE added
           /\ pc' = o.pc /\ result' = o.result /\ idx' = o.idx
           /\ failedAt' = IF ok THEN failedAt ELSE idx
           /\ errAt' = IF ok THEN errAt ELSE wi
    /\ writesAfterCancel' = writesAfterCancel + (IF cancelled THEN 1 ELSE 0)
    /\ UNCHANGED <<mode, wi, path, fchunks, cancelled, addCalls, reads,
                   readsAfterCancel, embedAfterCancel, embedOKAfterCancel,
                   searchVars>>

\* Search -> QuerySimilar, up to queryEmbeddings[0]
QueryEmbed ==
    /\ UNCHANGED notIndex
    /\ pc = "qembed"
    /\ \E r \in Replies(<<Query>>) :
       LET e == GenerateEmbeddings(cancelled, <<Query>>, r)
       IN  /\ IF e.err # "nil"
              THEN pc' = "done" /\ result' = "error" /\ qfail' = "embed"
              ELSE IF Len(e.embeddings) = 0
              THEN pc' = "done" /\ result' = "panic" /\ UNCHANGED qfail
              ELSE pc' = "query" /\ UNCHANGED <<result, qfail>>
           /\ embedAfterCancel' = (embedAfterCancel \/ cancelled)
           /\ embedOKAfterCancel' =
                  (embedOKAfterCancel \/ (cancelled /\ e.err = "nil"))
    /\ UNCHANGED <<mode, wi, path, fchunks, idx, cancelled, storeVars, errAt,
                   failedAt, readsAfterCancel, writesAfterCancel, limit,
                   qdocs, qmetas, results>>

\* s.collection.Query(...) fails: QuerySimilar and Search return the error
QueryFail ==
    /\ UNCHANGED notIndex
    /\ pc = "query"
    /\ pc' = "done" /\ result' = "error" /\ qfail' = "query"
    /\ UNCHANGED <<mode, wi, path, fchunks, idx, cancelled, storeVars,
                   histVars, limit, qdocs, qmetas, results>>

\* s.collection.Query(...) answers with parallel documents and metadatas,
\* at most limit of them; Search builds its results
QueryOK(docs, metas) ==
    /\ UNCHANGED notIndex
    /\ pc = "query"
    /\ Len(docs) = Len(metas) /\ Len(docs) <= limit
    /\ qdocs' = docs /\ qmetas' = metas
    /\ results' = SearchResults(docs, metas)
    /\ pc' = "done" /\ result' = "nil"
    /\ UNCHANGED <<mode, wi, path, fchunks, idx, cancelled, storeVars,
                   histVars, limit, qfail>>

----------------------------------------------------------------------------
InitChunk == ChunkInit /\ EmbedIdle /\ LockIdle /\ IndexIdle
NextChunk == CallSplit
SpecChunk == InitChunk /\ [][NextChunk]_vars

InitEmbed == EmbedInit /\ ChunkIdle /\ LockIdle /\ IndexIdle
NextEmbed == CallGenerateEmbeddings
SpecEmbed == InitEmbed /\ [][NextEmbed]_vars

InitLock == LockInit /\ ChunkIdle /\ EmbedIdle /\ IndexIdle
NextLock ==
    \/ \E p \in Procs, op \in Ops : CallStore(p, op)
    \/ \E p \in Procs : LockAnnounce(p)
    \/ \E p \in Procs : LockDrained(p)
    \/ \E p \in Procs : RLock(p)
    \/ \E p \in Procs, ok \in BOOLEAN : LockedEmbed(p, ok)
    \/ \E p \in Procs : LockedStoreOp(p)
    \/ \E p \in Procs : Release(p)
SpecLock == InitLock /\ [][NextLock]_vars

InitIndex == IndexInit /\ ChunkIdle /\ EmbedIdle /\ LockIdle
NextIndex ==
    \/ Cancel
    \/ CallIndexDirectory
    \/ \E f \in {FileAC, FileNMd} : CallProcessFile(f)
    \/ \E lim \in 1..MaxRes : CallSearch(lim)
    \/ WalkEnd
    \/ \E ok \in BOOLEAN : VisitDir(ok)
    \/ SkipFile
    \/ EnterFile
    \/ \E ok \in BOOLEAN, content \in StringsUpTo(MaxFileLen) :
           ReadFile(ok, content)
    \/ ProcessFileReturn
    \/ AddEmbed
    \/ \E ok \in BOOLEAN : AddStore(ok)
    \/ QueryEmbed
    \/ QueryFail
    \/ \E docs \in SeqsUpTo(StoredDocs, MaxRes),
          metas \in SeqsUpTo(StoredMetas, MaxRes) : QueryOK(docs, metas)
SpecIndex == InitIndex /\ [][NextIndex]_vars

----------------------------------------------------------------------------
\* C1: the chunks' newline-terminated lines, chunk after chunk, are exactly
\* the lines obtained by splitting the input text on the newline: no line
\* is lost, duplicated or reordered.
C1_Coverage ==
    cpc = "done" => AllLines(chunks, 1) = Split(text)

C1_Witness ==
    /\ cpc = "done"
    /\ Len(chunks) >= 2
    /\ Len(Split(text)) >= 3

\* C2 (as claimed): chunking the empty string yields zero chunks.
C2_EmptyYieldsNone ==
    (cpc = "done" /\ text = <<>>) => chunks = <<>>

\* C9: every chunk holds at least one whole line, and a chunk of two or
\* more lines has accumulated size (sum of line length + 1) at most the
\* chunk size; only a single-line chunk may exceed it.
C9_SoftBound ==
    cpc = "done" =>
        \A k \in 1..Len(chunks) :
            /\ Len(TermLines(chunks[k])) >= 1
            /\ chunks[k][Len(chunks[k])] = NL
            /\ Len(TermLines(chunks[k])) >= 2 => Len(chunks[k]) <= chunkSize

C9_Witness ==
    /\ cpc = "done"
    /\ \E k \in 1..Len(chunks) :
           Len(TermLines(chunks[k])) >= 2 /\ Len(chunks[k]) = chunkSize
    /\ \E k \in 1..Len(chunks) :
           Len(TermLines(chunks[k])) = 1 /\ Len(chunks[k]) > chunkSize

\* C7 (as claimed): a successful call on n >= 1 texts returns exactly n
\* embeddings, the i-th being the embedding of the i-th text, whatever
\* well-formed success response the provider sent.
C7_Aligned ==
    (epc = "done" /\ eres.err = "nil" /\ Len(texts) >= 1
        /\ WellFormed(texts, reply)) =>
        /\ Len(eres.embeddings) = Len(texts)
        /\ \A i \in 1..Len(texts) : eres.embeddings[i] = EmbOf(texts[i])

\* C5: a write (AddDocuments, DeleteDocuments) is never inside its critical
\* section together with another write or with a QuerySimilar; the lock
\* state agrees with who is inside.
C5_WritersExclusive ==
    /\ \A p, q \in Procs :
          (p # q /\ InCS(p) /\ InCS(q)) =>
              (~IsWrite(lop[p]) /\ ~IsWrite(lop[q]))
    /\ readers = Cardinality({p \in Procs : InCS(p) /\ lop[p] = "query"})

\* ... while two QuerySimilar calls are inside together.
C5_Witness ==
    \E p, q \in Procs :
        /\ p # q /\ InCS(p) /\ InCS(q)
        /\ lop[p] = "query" /\ lop[q] = "query"
        /\ \E w \in Procs : lpc[w] = "drain"

----------------------------------------------------------------------------
\* The AddDocuments calls and the persisted documents of the file being
\* processed.
CallsOfFile == SelectSeq(addCalls, LAMBDA c : c.wi = wi /\ c.path = path)
KeptOfFile == SelectSeq(added, LAMBDA a : a.meta.file_path = path)
KeptOf(f) == SelectSeq(added, LAMBDA a : a.meta.file_path = f)

\* C3: ProcessFile submits the chunks one per AddDocuments call in ascending
\* index; when the write of chunk k fails it returns an error at once, no
\* call is issued for a later chunk, and chunks 0..k-1 stay persisted.
C3_AbortOnChunkFailure ==
    mode \in {"dir", "file"} =>
        /\ \A k \in 1..Len(CallsOfFile) :
              /\ CallsOfFile[k].idx = k - 1
              /\ Len(CallsOfFile[k].documents) = 1
              /\ Len(CallsOfFile[k].metadata) = 1
              /\ Len(CallsOfFile[k].ids) = 1
        /\ failedAt >= 0 =>
              /\ pc = "done" /\ result = "error"
              /\ Len(CallsOfFile) = failedAt + 1
              /\ Len(KeptOfFile) = failedAt
              /\ \A k \in 1..failedAt :
                    /\ KeptOfFile[k].doc = fchunks[k]
                    /\ KeptOfFile[k].meta.chunk_index = k - 1

C3_Witness ==
    /\ mode = "file" /\ pc = "done"
    /\ failedAt = 1 /\ Len(fchunks) >= 3 /\ Len(added) = 1

IsCodeEntry(w) == ~Walk[w].dir /\ isCodeFile(Walk[w].path)

\* C4: IndexDirectory processes files one at a time in walk order; after
\* the first failing ProcessFile or traversal error nothing later is read
\* or written and the result is an error; the result is nil only if every
\* eligible file was read and all its chunks were written.
C4_StopAtFirstFailure ==
    mode = "dir" =>
        /\ \A a, b \in 1..Len(reads) : a < b => reads[a].wi < reads[b].wi
        /\ errAt > 0 =>
              /\ pc = "done" /\ result = "error"
              /\ \A a \in 1..Len(reads) : reads[a].wi <= errAt
              /\ \A c \in 1..Len(addCalls) : addCalls[c].wi <= errAt
        /\ (pc = "done" /\ result = "nil") =>
              /\ errAt = 0
              /\ Len(added) = Len(addCalls)
              /\ \A w \in 1..Len(Walk) :
                    IsCodeEntry(w) =>
                        /\ \E a \in 1..Len(reads) :
                              reads[a].wi = w /\ reads[a].ok
                        /\ Len(KeptOf(Walk[w].path)) >= 1
                        /\ Len(KeptOf(Walk[w].path)) =
                               KeptOf(Walk[w].path)[1].meta.total_chunks

C4_Witness ==
    /\ mode = "dir" /\ pc = "done" /\ result = "error"
    /\ errAt = 3 /\ Len(added) >= 1
    /\ IsCodeEntry(4)

\* C6 (as claimed): once the token is cancelled the running call reads no
\* further file.
C6_NoReadAfterCancel ==
    readsAfterCancel = 0

\* C6 (amended): only the embedding request observes the token.  No
\* embedding request made after the cancellation succeeds, and the call
\* that makes one returns an error; a file can still be read after the
\* cancellation (at most one) and at most one store write, whose
\* embedding was obtained before the cancellation, can still be issued.
C6_EmbedObservesCancel ==
    /\ ~embedOKAfterCancel
    /\ embedAfterCancel => (pc = "done" /\ result = "error")
    /\ readsAfterCancel <= 1
    /\ writesAfterCancel <= 1

C6_Witness ==
    /\ mode = "dir" /\ pc = "done"
    /\ embedAfterCancel /\ readsAfterCancel = 1
    /\ Len(added) >= 1

C10_IdsDistinct ==
    \A a, b \in 1..Len(added) :
        (a # b /\ (added[a].meta.file_path # added[b].meta.file_path
                    \/ added[a].meta.chunk_index # added[b].meta.chunk_index))
            => added[a].id # added[b].id

====
